---- MODULE Spec2Model ----
(***************************************************************************)
(* State-machine model of the WidgetResize plugin                          *)
(* (packages/ckeditor5-widget/src/widgetresize.js).                        *)
(*                                                                         *)
(* Resizers are identified by the order in which attachTo() created them   *)
(* (1, 2, ...).  Null (0) stands for null / undefined.  Time is counted in *)
(* milliseconds; every clock is kept relative (time elapsed since ...) and *)
(* capped at the wait of the throttle it belongs to, because the code only *)
(* ever compares an elapsed time with that wait.                           *)
(***************************************************************************)
EXTENDS Integers, Sequences, FiniteSets, TLC

\* ------------------------------------------------------------------ bounds
MaxResizers == 2
MaxSelection == 3
DragTick == 8
RedrawTick == 100
CoarseTick == 200

\* ------------------------------------------------------ program constants
Null == 0
NoTimer == -1
EventArgs == 1
MoveWait == 16
RedrawWait == 200

VARIABLES
    resizers,        \* this.resizers: the Map, as its entries in insertion order
    created,         \* number of Resizer objects constructed so far
    activeResizer,   \* the closure variable activeResizer of init()
    focusedResizer,  \* this._focusedResizer
    observing,       \* this._observer still holds its listeners
    moveThrottle,    \* state of throttle( ..., 16 ) around the mousemove listener
    redrawThrottle,  \* state of throttle( ..., 200 ), redrawFocusedResizer
    began,           \* Resizers on which begin() ran and commit() has not yet
    last,            \* the notification handled last and the Resizer calls it made
    input,           \* what that notification carried (target, visited nodes)
    win,             \* bookkeeping of the current mousemove throttle window
    lastRedraw,      \* the last throttled redraw() call and its age
    script,          \* position in the two-resizer drag scenario
    history,         \* every Resizer call made during the scenario
    sinceMove1,      \* scenario clock: time since its first move
    drag             \* bookkeeping of the move the mousemove throttle holds

observerVars ==
    <<began, input, win, lastRedraw, script, history, sinceMove1, drag>>
vars == <<resizers, created, activeResizer, focusedResizer, observing,
          moveThrottle, redrawThrottle, began, last, input, win, lastRedraw,
          script, history, sinceMove1, drag>>

Min(a, b) == IF a <= b THEN a ELSE b
Max(a, b) == IF a >= b THEN a ELSE b

\* ---------------------------------------------------------- the view tree
\* Nodes 1..3 are widgets carrying the class ck-widget_with-resizer; node 2
\* lies inside node 1; node 4 is an element that is not a widget.
Nodes == {1, 2, 3, 4}
Keys == {1, 2, 3}
Ancestors(node) == IF node = 2 THEN {1} ELSE {}
IsWidget(node) == node \in {1, 2, 3}
HasResizerClass(node) == node \in {1, 2, 3}

\* Pointer positions carried by mousemove events.
MoveData == {1, 2}

\* A mousedown target: NonHandle is any element that is no resize handle,
\* ForeignHandle a resize handle no Resizer of this plugin created, and
\* r >= 1 a handle created by Resizer r.
NonHandle == -1
ForeignHandle == 0
Targets == {NonHandle, ForeignHandle} \cup (1 .. MaxResizers)

IsResizeHandle(target) == target # NonHandle
ContainsHandle(resizer, handle) == handle = resizer

Call(op, on, arg) == [op |-> op, on |-> on, arg |-> arg]
Event(ev, calls) == [ev |-> ev, calls |-> calls]

\* -------------------------------------------------------------- registry
RegIndex(reg, key) ==
    IF \E i \in 1 .. Len(reg) : reg[i].key = key
    THEN CHOOSE i \in 1 .. Len(reg) : reg[i].key = key
    ELSE 0

\* A set that leaves the entry of a key the Map already has.
RegSetKeepsEntry(reg, key, resizer) ==
    IF RegIndex(reg, key) # 0
    THEN reg
    ELSE Append(reg, [key |-> key, resizer |-> resizer])

\* Map.prototype.set: an existing key keeps its place and gets the new value.
RegSet(reg, key, resizer) ==
    IF RegIndex(reg, key) # 0
    THEN [reg EXCEPT ![RegIndex(reg, key)].resizer = resizer]
    ELSE Append(reg, [key |-> key, resizer |-> resizer])

\* Map.prototype.get, undefined as Null.
RegGet(reg, key) ==
    IF RegIndex(reg, key) # 0 THEN reg[RegIndex(reg, key)].resizer ELSE Null

RegValues(reg) == {reg[i].resizer : i \in 1 .. Len(reg)}

RECURSIVE ScanHandles(_, _, _)
ScanHandles(reg, i, handle) ==
    IF i > Len(reg) THEN Null
    ELSE IF ContainsHandle(reg[i].resizer, handle) THEN reg[i].resizer
    ELSE ScanHandles(reg, i + 1, handle)

\* A lookup that takes the first Resizer of the registry without asking it.
GetFirstResizer(reg, handle) ==
    IF reg = <<>> THEN Null ELSE reg[1].resizer

GetResizerByHandle(reg, handle) == ScanHandles(reg, 1, handle)

\* ------------------------------------------------- lodash throttle( f, w )
\* throttle( f, w ) is debounce( f, w, { leading: true, trailing: true,
\* maxWait: w } ).  lastArgs is Null when undefined; timer is NoTimer or the
\* time left until timerExpired runs; sinceCall and sinceInvoke are the time
\* elapsed since lastCallTime and lastInvokeTime, capped at w (sinceCall = w
\* also stands for lastCallTime === undefined).
NewThrottle(w) ==
    [lastArgs |-> Null, timer |-> NoTimer, sinceCall |-> w, sinceInvoke |-> w]

ShouldInvoke(th, w) == th.sinceCall >= w \/ th.sinceInvoke >= w

RemainingWait(th, w) == Min(w - th.sinceCall, w - th.sinceInvoke)

\* debounced(): the new throttle state and the arguments f is invoked with
\* now (Null: f is not invoked by this call).
ThrottleCall(th, w, args) ==
    IF ShouldInvoke(th, w)
    THEN \* leadingEdge, or the maxing branch that restarts the timer
         [th |-> [lastArgs |-> Null, timer |-> w, sinceCall |-> 0, sinceInvoke |-> 0],
          invoke |-> args]
    ELSE [th |-> [th EXCEPT !.lastArgs = args, !.sinceCall = 0,
                            !.timer = IF th.timer = NoTimer THEN w ELSE th.timer],
          invoke |-> Null]

\* timerExpired(): trailingEdge when shouldInvoke, else the timer is restarted.
ThrottleExpire(th, w) ==
    IF ShouldInvoke(th, w)
    THEN [th |-> [th EXCEPT !.timer = NoTimer, !.lastArgs = Null,
                            !.sinceInvoke = IF th.lastArgs # Null THEN 0 ELSE th.sinceInvoke],
          invoke |-> th.lastArgs]
    ELSE [th |-> [th EXCEPT !.timer = RemainingWait(th, w)], invoke |-> Null]

\* The passing of d milliseconds, seen by one throttle.
ThrottleTick(th, w, d) ==
    [th EXCEPT !.sinceCall = Min(w, th.sinceCall + d),
               !.sinceInvoke = Min(w, th.sinceInvoke + d),
               !.timer = IF th.timer = NoTimer THEN NoTimer ELSE Max(0, th.timer - d)]

\* ------------------------------------------------------------------ state
NoWindow ==
    [closed |-> FALSE, act |-> FALSE, leading |-> FALSE, more |-> FALSE,
     activeAtClose |-> FALSE, first |-> Null, lastd |-> Null,
     lead |-> Null, trail |-> Null, mid |-> FALSE]

NoRedraw ==
    [on |-> Null, age |-> RedrawWait, gap |-> RedrawWait, trailing |-> "none",
     by |-> "none", sinceUpdate |-> RedrawWait, sinceResize |-> RedrawWait]

NoDrag ==
    [held |-> FALSE, heldSlot |-> Null, stale |-> FALSE, fwd |-> "none",
     fwdSlot |-> Null, owed |-> FALSE, lost |-> FALSE, released |-> FALSE]

Init ==
    /\ resizers = <<>>
    /\ created = 0
    /\ activeResizer = Null
    /\ focusedResizer = Null
    /\ observing = TRUE
    /\ moveThrottle = NewThrottle(MoveWait)
    /\ redrawThrottle = NewThrottle(RedrawWait)
    /\ began = {}
    /\ last = Event("init", <<>>)
    /\ input = <<>>
    /\ win = NoWindow
    /\ lastRedraw = NoRedraw
    /\ script = 0
    /\ history = <<>>
    /\ sinceMove1 = 0
    /\ drag = NoDrag

\* The Resizer lifecycle (inactive/active) as the calls of a step change it.
RECURSIVE AfterCalls(_, _)
AfterCalls(active, calls) ==
    IF calls = <<>> THEN active
    ELSE AfterCalls(
            IF Head(calls).op = "begin" THEN active \cup {Head(calls).on}
            ELSE IF Head(calls).op = "commit" THEN active \ {Head(calls).on}
            ELSE active,
            Tail(calls))

\* ---------------------------------------------------------------- attachTo
AttachTo(key) ==
    /\ created < MaxResizers
    /\ created' = created + 1
    /\ resizers' = RegSet(resizers, key, created + 1)
    /\ last' = Event("attachTo", <<>>)
    /\ UNCHANGED <<activeResizer, focusedResizer, observing, moveThrottle,
                   redrawThrottle>>

\* ----------------------------------------------------- pointer listeners
\* The mousedown listener: the new value of activeResizer and the calls made.
MouseDownListener(reg, active, target) ==
    IF ~IsResizeHandle(target)
    THEN [active |-> active, calls |-> <<>>]
    ELSE LET found == GetResizerByHandle(reg, target)
         IN  [active |-> found,
              calls |-> IF found # Null THEN <<Call("begin", found, target)>> ELSE <<>>]

MouseDown(target) ==
    /\ target = NonHandle \/ target = ForeignHandle \/ target <= created
    /\ LET res == IF observing THEN MouseDownListener(resizers, activeResizer, target)
                  ELSE [active |-> activeResizer, calls |-> <<>>]
       IN  /\ activeResizer' = res.active
           /\ last' = Event("mousedown", res.calls)
    /\ UNCHANGED <<resizers, created, focusedResizer, observing, moveThrottle,
                   redrawThrottle>>

\* A mousemove listener without the test of the slot.
MoveListenerUnguarded(active, data) ==
    <<Call("updateSize", active, data)>>

\* The function wrapped by throttle( ..., 16 ).
MoveListener(active, data) ==
    IF active # Null THEN <<Call("updateSize", active, data)>> ELSE <<>>

MouseMove(data) ==
    /\ IF observing
       THEN LET res == ThrottleCall(moveThrottle, MoveWait, data)
            IN  /\ moveThrottle' = res.th
                /\ last' = Event("mousemove",
                                 IF res.invoke # Null
                                 THEN MoveListener(activeResizer, res.invoke)
                                 ELSE <<>>)
       ELSE /\ last' = Event("mousemove", <<>>)
            /\ UNCHANGED moveThrottle
    /\ UNCHANGED <<resizers, created, activeResizer, focusedResizer, observing,
                   redrawThrottle>>

\* The timer runs out in a throttle created with { trailing: false }.
MoveTimerExpiredNoTrailing ==
    /\ moveThrottle.timer = 0
    /\ moveThrottle' = ThrottleExpire(moveThrottle, MoveWait).th
    /\ last' = Event("moveTimer", <<>>)
    /\ UNCHANGED <<resizers, created, activeResizer, focusedResizer, observing,
                   redrawThrottle>>

\* The timer of the mousemove throttle runs out (timerExpired).
MoveTimerExpired ==
    /\ moveThrottle.timer = 0
    /\ LET res == ThrottleExpire(moveThrottle, MoveWait)
       IN  /\ moveThrottle' = res.th
           /\ last' = Event("moveTimer",
                            IF res.invoke # Null
                            THEN MoveListener(activeResizer, res.invoke)
                            ELSE <<>>)
    /\ UNCHANGED <<resizers, created, activeResizer, focusedResizer, observing,
                   redrawThrottle>>

\* A mouseup listener that commits and forgets to empty the slot.
MouseUpListenerKeepsSlot(active) ==
    IF active # Null
    THEN [active |-> active, calls |-> <<Call("commit", active, Null)>>]
    ELSE [active |-> active, calls |-> <<>>]

\* The mouseup listener: the new value of activeResizer and the calls made.
MouseUpListener(active) ==
    IF active # Null
    THEN [active |-> Null, calls |-> <<Call("commit", active, Null)>>]
    ELSE [active |-> active, calls |-> <<>>]

MouseUp ==
    /\ LET res == IF observing THEN MouseUpListener(activeResizer)
                  ELSE [active |-> activeResizer, calls |-> <<>>]
       IN  /\ activeResizer' = res.active
           /\ last' = Event("mouseup", res.calls)
    /\ UNCHANGED <<resizers, created, focusedResizer, observing, moveThrottle,
                   redrawThrottle>>

\* ------------------------------------------------------------ focus tracker
\* The test of isChild the wrong way round: is parent inside element?
IsParent(element, parent) == parent # Null /\ element \in Ancestors(parent)

IsChild(element, parent) == parent # Null /\ parent \in Ancestors(element)

\* The two nested loops of the selection listener, over the nodes in the
\* order in which the ranges yield them.
RECURSIVE ScanSelection(_, _, _, _, _)
ScanSelection(reg, visited, i, lastMarked, focused) ==
    IF i > Len(visited) THEN focused
    ELSE IF /\ IsWidget(visited[i])
            /\ ~IsChild(visited[i], lastMarked)
            /\ HasResizerClass(visited[i])
         THEN ScanSelection(reg, visited, i + 1, visited[i],
                            LET found == RegGet(reg, visited[i])
                            IN  IF found # Null THEN found ELSE focused)
         ELSE ScanSelection(reg, visited, i + 1, lastMarked, focused)

FocusOf(reg, visited) == ScanSelection(reg, visited, 1, Null, Null)

\* The nodes a selection change can visit: no node twice.
Selections ==
    {v \in UNION {[1 .. n -> Nodes] : n \in 0 .. MaxSelection} :
        \A i, j \in DOMAIN v : i # j => v[i] # v[j]}

\* A selection listener that keeps the old focus when it resolves none.
SelectionChangeKeepsFocus(visited) ==
    /\ LET focused == FocusOf(resizers, visited)
       IN  /\ focusedResizer' = IF focused # Null THEN focused ELSE focusedResizer
           /\ last' = Event("selection",
                            IF focused # Null
                            THEN <<Call("redraw", focused, Null)>> ELSE <<>>)
    /\ UNCHANGED <<resizers, created, activeResizer, observing, moveThrottle,
                   redrawThrottle>>

\* A selection listener that also ends the drag in progress.
SelectionChangeEndsDrag(visited) ==
    /\ LET focused == FocusOf(resizers, visited)
       IN  /\ focusedResizer' = focused
           /\ last' = Event("selection",
                            IF focused # Null
                            THEN <<Call("redraw", focused, Null)>> ELSE <<>>)
    /\ activeResizer' = Null
    /\ UNCHANGED <<resizers, created, observing, moveThrottle, redrawThrottle>>

\* The listener on downcastDispatcher 'selection'; destroy() leaves it in place.
SelectionChange(visited) ==
    /\ LET focused == FocusOf(resizers, visited)
       IN  /\ focusedResizer' = focused
           /\ last' = Event("selection",
                            IF focused # Null
                            THEN <<Call("redraw", focused, Null)>> ELSE <<>>)
    /\ UNCHANGED <<resizers, created, activeResizer, observing, moveThrottle,
                   redrawThrottle>>

\* ---------------------------------------------------------- redraw scheduler
\* The function wrapped by throttle( ..., 200 ).
RedrawListener(focused) ==
    IF focused # Null THEN <<Call("redraw", focused, Null)>> ELSE <<>>

\* One call of redrawFocusedResizer, the throttled function.
RedrawFocusedResizer(ev) ==
    LET res == ThrottleCall(redrawThrottle, RedrawWait, EventArgs)
    IN  /\ redrawThrottle' = res.th
        /\ last' = Event(ev,
                         IF res.invoke # Null THEN RedrawListener(focusedResizer)
                         ELSE <<>>)

\* editor.ui 'update'; the listener is added with editor.ui.on(), so
\* destroy() leaves it in place.
UiUpdate ==
    /\ RedrawFocusedResizer("update")
    /\ UNCHANGED <<resizers, created, activeResizer, focusedResizer, observing,
                   moveThrottle>>

\* A window 'resize' listener that is the wrapped function itself, not throttled.
WindowResizeUnthrottled ==
    /\ last' = Event("resize", IF observing THEN RedrawListener(focusedResizer) ELSE <<>>)
    /\ UNCHANGED <<resizers, created, activeResizer, focusedResizer, observing,
                   moveThrottle, redrawThrottle>>

\* window 'resize', listened to through this._observer.
WindowResize ==
    /\ IF observing
       THEN RedrawFocusedResizer("resize")
       ELSE /\ last' = Event("resize", <<>>)
            /\ UNCHANGED redrawThrottle
    /\ UNCHANGED <<resizers, created, activeResizer, focusedResizer, observing,
                   moveThrottle>>

\* The timer of the redraw throttle runs out (timerExpired).
RedrawTimerExpired ==
    /\ redrawThrottle.timer = 0
    /\ LET res == ThrottleExpire(redrawThrottle, RedrawWait)
       IN  /\ redrawThrottle' = res.th
           /\ last' = Event("redrawTimer",
                            IF res.invoke # Null THEN RedrawListener(focusedResizer)
                            ELSE <<>>)
    /\ UNCHANGED <<resizers, created, activeResizer, focusedResizer, observing,
                   moveThrottle>>

\* ------------------------------------------------------------------- time
\* d milliseconds pass; a timer that is due runs before time moves on.
Tick(d) ==
    /\ moveThrottle.timer # 0
    /\ redrawThrottle.timer # 0
    /\ moveThrottle' = ThrottleTick(moveThrottle, MoveWait, d)
    /\ redrawThrottle' = ThrottleTick(redrawThrottle, RedrawWait, d)
    /\ last' = Event("tick", <<>>)
    /\ UNCHANGED <<resizers, created, activeResizer, focusedResizer, observing>>

\* ------------------------------------------------------------------ destroy
Destroy ==
    /\ observing' = FALSE
    /\ last' = Event("destroy", <<>>)
    /\ UNCHANGED <<resizers, created, activeResizer, focusedResizer, moveThrottle,
                   redrawThrottle>>

\* ------------------------------------------------------- specifications
\* No bookkeeping variable changes.
Idle == UNCHANGED observerVars

\* Every outcome of the selection listener is the outcome of a pass that
\* visits at most one node, so these stand for all selections where the
\* visited nodes themselves are not recorded.
SingleVisits == {visited \in Selections : Len(visited) <= 1}

\* The whole plugin, on the grid of CoarseTick milliseconds.
Next ==
    \/ \E key \in Keys : AttachTo(key) /\ Idle
    \/ \E target \in Targets : MouseDown(target) /\ Idle
    \/ \E data \in MoveData : MouseMove(data) /\ Idle
    \/ MoveTimerExpired /\ Idle
    \/ MouseUp /\ Idle
    \/ \E visited \in SingleVisits : SelectionChange(visited) /\ Idle
    \/ UiUpdate /\ Idle
    \/ WindowResize /\ Idle
    \/ RedrawTimerExpired /\ Idle
    \/ Destroy /\ Idle
    \/ Tick(CoarseTick) /\ Idle

Spec == Init /\ [][Next]_vars

\* What an observer of the pointer listeners keeps: the Resizers left active
\* by the calls of the step, and what the notification carried.
Observe(carried) ==
    /\ began' = AfterCalls(began, last'.calls)
    /\ input' = carried
    /\ UNCHANGED <<win, lastRedraw, script, history, sinceMove1, drag>>

\* Dragging alone, on the grid of DragTick milliseconds.
DragNext ==
    \/ \E key \in Keys : AttachTo(key) /\ Observe(<<key>>)
    \/ \E target \in Targets : MouseDown(target) /\ Observe(<<target>>)
    \/ \E data \in MoveData : MouseMove(data) /\ Observe(<<data>>)
    \/ MoveTimerExpired /\ Observe(<<>>)
    \/ MouseUp /\ Observe(<<>>)
    \/ Destroy /\ Observe(<<>>)
    \/ Tick(DragTick) /\ Observe(<<>>)

SpecDrag == Init /\ [][DragNext]_vars

\* The window of the mousemove throttle: it opens when a call starts the
\* timer and closes when timerExpired clears it.  Kept per window: whether
\* every move was delivered while a Resizer was active (act), whether the
\* opening call ran the function at once (leading), whether a later move
\* arrived (more), whether a Resizer was active at the close, the data of the
\* first and of the last move, the data updateSize got from the opening move
\* (lead) and at the close (trail), and whether a later move reached
\* updateSize (mid).
ObserveMove(data) ==
    /\ win' = IF ~observing THEN win
              ELSE IF moveThrottle.timer = NoTimer \/ ShouldInvoke(moveThrottle, MoveWait)
              THEN [closed |-> FALSE, act |-> activeResizer # Null,
                    leading |-> ShouldInvoke(moveThrottle, MoveWait),
                    more |-> FALSE, activeAtClose |-> FALSE,
                    first |-> data, lastd |-> data,
                    lead |-> IF last'.calls = <<>> THEN Null ELSE last'.calls[1].arg,
                    trail |-> Null, mid |-> FALSE]
              ELSE [win EXCEPT !.act = win.act /\ activeResizer # Null,
                               !.more = TRUE,
                               !.lastd = data,
                               !.mid = win.mid \/ last'.calls # <<>>]
    /\ UNCHANGED <<began, input, lastRedraw, script, history, sinceMove1, drag>>

ObserveExpiry ==
    /\ win' = IF moveThrottle'.timer = NoTimer
              THEN [win EXCEPT !.closed = TRUE,
                               !.activeAtClose = activeResizer # Null,
                               !.trail = IF last'.calls = <<>> THEN Null
                                         ELSE last'.calls[1].arg]
              ELSE win
    /\ UNCHANGED <<began, input, lastRedraw, script, history, sinceMove1, drag>>

WindowNext ==
    \/ \E key \in Keys : AttachTo(key) /\ Idle
    \/ \E target \in Targets : MouseDown(target) /\ Idle
    \/ \E data \in MoveData : MouseMove(data) /\ ObserveMove(data)
    \/ MoveTimerExpired /\ ObserveExpiry
    \/ MouseUp /\ Idle
    \/ Tick(DragTick) /\ Idle

SpecWindow == Init /\ [][WindowNext]_vars

\* What an observer of the order of pointer events keeps.  held: the
\* throttle holds a move for its trailing edge; heldSlot: the slot when that
\* move was delivered; stale: a press on a handle or a release was handled
\* since.  fwd tells how the step just taken ran the throttled listener:
\* "lead" with the move just delivered, "fresh" or "stale" with the held
\* move, "none" not at all; fwdSlot is the slot when the forwarded move was
\* delivered.  owed: a move was delivered to the Resizer in the slot and
\* neither it nor a later one has reached updateSize(); lost: the step just
\* taken committed with owed set.  released: a release committed and no
\* press was handled since.
ObserveOrder(carried) ==
    /\ input' = carried
    /\ began' = AfterCalls(began, last'.calls)
    /\ drag' =
          IF last'.ev = "mousemove" /\ observing
          THEN IF ShouldInvoke(moveThrottle, MoveWait)
               THEN [drag EXCEPT !.held = FALSE, !.heldSlot = Null, !.stale = FALSE,
                                 !.fwd = "lead", !.fwdSlot = activeResizer,
                                 !.owed = FALSE, !.lost = FALSE]
               ELSE [drag EXCEPT !.held = TRUE, !.heldSlot = activeResizer,
                                 !.stale = FALSE, !.fwd = "none", !.fwdSlot = Null,
                                 !.owed = activeResizer # Null, !.lost = FALSE]
          ELSE IF last'.ev = "moveTimer" /\ moveThrottle'.timer = NoTimer
                  /\ moveThrottle.lastArgs # Null
          THEN [drag EXCEPT !.held = FALSE, !.heldSlot = Null, !.stale = FALSE,
                            !.fwd = IF drag.stale THEN "stale" ELSE "fresh",
                            !.fwdSlot = drag.heldSlot,
                            !.owed = drag.owed /\ last'.calls = <<>>,
                            !.lost = FALSE]
          ELSE IF last'.ev = "mousedown" /\ observing
          THEN [drag EXCEPT !.stale = drag.stale \/ (drag.held /\ IsResizeHandle(carried[1])),
                            !.fwd = "none", !.fwdSlot = Null,
                            !.owed = drag.owed /\ ~IsResizeHandle(carried[1]),
                            !.lost = FALSE, !.released = FALSE]
          ELSE IF last'.ev = "mouseup" /\ observing
          THEN [drag EXCEPT !.stale = drag.held,
                            !.fwd = "none", !.fwdSlot = Null,
                            !.owed = FALSE,
                            !.lost = drag.owed /\ last'.calls # <<>>,
                            !.released = drag.released \/ last'.calls # <<>>]
          ELSE [drag EXCEPT !.fwd = "none", !.fwdSlot = Null, !.lost = FALSE]
    /\ UNCHANGED <<win, lastRedraw, script, history, sinceMove1>>

\* Dragging with the order of pointer events recorded.
OrderNext ==
    \/ \E key \in Keys : AttachTo(key) /\ ObserveOrder(<<key>>)
    \/ \E target \in Targets : MouseDown(target) /\ ObserveOrder(<<target>>)
    \/ \E data \in MoveData : MouseMove(data) /\ ObserveOrder(<<data>>)
    \/ MoveTimerExpired /\ ObserveOrder(<<>>)
    \/ MouseUp /\ ObserveOrder(<<>>)
    \/ Destroy /\ ObserveOrder(<<>>)
    \/ Tick(DragTick) /\ ObserveOrder(<<>>)

SpecOrder == Init /\ [][OrderNext]_vars

\* What an observer of the redraw scheduler keeps: what the notification
\* carried, and for the latest throttled redraw() the Resizer it was made on,
\* its age, and the gap to the throttled redraw() before it on the same
\* Resizer (RedrawWait when there was none since the latest selection
\* change).  trailing follows a throttled call that was pending when a
\* selection change took the focus away: "waiting", then "fired" once
\* timerExpired has run the function.
RedrawRecord(d) ==
    IF last'.ev = "selection"
    THEN [lastRedraw EXCEPT !.on = Null, !.age = RedrawWait, !.gap = RedrawWait,
                            !.trailing =
                                IF /\ redrawThrottle.lastArgs # Null
                                   /\ focusedResizer # Null
                                   /\ focusedResizer' = Null
                                THEN "waiting" ELSE "none"]
    ELSE IF last'.ev = "tick"
    THEN [lastRedraw EXCEPT !.age = Min(RedrawWait, lastRedraw.age + d)]
    ELSE IF last'.ev = "redrawTimer" /\ redrawThrottle'.timer = NoTimer
            /\ lastRedraw.trailing = "waiting"
    THEN [lastRedraw EXCEPT !.trailing = "fired"]
    ELSE IF last'.calls # <<>>
    THEN [lastRedraw EXCEPT !.on = last'.calls[1].on, !.age = 0,
                            !.gap = IF lastRedraw.on = last'.calls[1].on
                                    THEN lastRedraw.age ELSE RedrawWait]
    ELSE lastRedraw

ObserveFocus(carried, d) ==
    /\ input' = carried
    /\ lastRedraw' = RedrawRecord(d)
    /\ UNCHANGED <<began, win, script, history, sinceMove1, drag>>

\* Focus tracking and redrawing alone, on the grid of RedrawTick milliseconds.
FocusNext ==
    \/ \E key \in Keys : AttachTo(key) /\ ObserveFocus(<<key>>, 0)
    \/ \E visited \in Selections : SelectionChange(visited) /\ ObserveFocus(visited, 0)
    \/ UiUpdate /\ ObserveFocus(<<>>, 0)
    \/ WindowResize /\ ObserveFocus(<<>>, 0)
    \/ RedrawTimerExpired /\ ObserveFocus(<<>>, 0)
    \/ Tick(RedrawTick) /\ ObserveFocus(<<>>, RedrawTick)

SpecFocus == Init /\ [][FocusNext]_vars

\* What an observer of the two redraw triggers keeps on top of that: the
\* notification that made the latest throttled redraw() (by), and the time
\* since the latest UI update and since the latest window resize that the
\* plugin listened to.
ObserveTriggers(carried, d) ==
    /\ input' = carried
    /\ lastRedraw' =
          [RedrawRecord(d) EXCEPT
              !.by = IF last'.ev = "selection" THEN "none"
                     ELSE IF last'.calls # <<>> THEN last'.ev
                     ELSE lastRedraw.by,
              !.sinceUpdate = IF last'.ev = "update" THEN 0
                              ELSE Min(RedrawWait, lastRedraw.sinceUpdate + d),
              !.sinceResize = IF last'.ev = "resize" /\ observing THEN 0
                              ELSE Min(RedrawWait, lastRedraw.sinceResize + d)]
    /\ UNCHANGED <<began, win, script, history, sinceMove1, drag>>

\* The two triggers of the redraw scheduler, on the grid of RedrawTick.
TriggersNext ==
    \/ \E key \in Keys : AttachTo(key) /\ ObserveTriggers(<<key>>, 0)
    \/ \E visited \in SingleVisits :
           SelectionChange(visited) /\ ObserveTriggers(visited, 0)
    \/ UiUpdate /\ ObserveTriggers(<<>>, 0)
    \/ WindowResize /\ ObserveTriggers(<<>>, 0)
    \/ RedrawTimerExpired /\ ObserveTriggers(<<>>, 0)
    \/ Destroy /\ ObserveTriggers(<<>>, 0)
    \/ Tick(RedrawTick) /\ ObserveTriggers(<<>>, RedrawTick)

SpecTriggers == Init /\ [][TriggersNext]_vars

\* The scenario: Resizer 1 (A) is attached to widget 1 (X) and Resizer 2 (B)
\* to widget 3 (Y); then a press on a handle of A, a move carrying 1, a move
\* carrying 2 at most 10 ms later, and the release less than MoveWait after
\* the first move.  The pointer may move before the press, time passes
\* between the steps, and the timer of the throttle runs when it is due.
\* history keeps every Resizer call, sinceMove1 the time since the first move.
Step(from, to) ==
    /\ script = from
    /\ script' = to
    /\ history' = history \o last'.calls
    /\ sinceMove1' = sinceMove1
    /\ UNCHANGED <<began, input, win, lastRedraw, drag>>

ScenarioTick ==
    /\ Tick(DragTick)
    /\ sinceMove1' = IF script >= 4 THEN Min(MoveWait, sinceMove1 + DragTick) ELSE 0
    /\ UNCHANGED <<began, input, win, lastRedraw, script, history, drag>>

ScenarioNext ==
    \/ AttachTo(1) /\ Step(0, 1)
    \/ AttachTo(3) /\ Step(1, 2)
    \/ \E data \in MoveData : MouseMove(data) /\ Step(2, 2)
    \/ MouseDown(1) /\ Step(2, 3)
    \/ MouseMove(1) /\ Step(3, 4)
    \/ sinceMove1 <= 10 /\ MouseMove(2) /\ Step(4, 5)
    \/ sinceMove1 < MoveWait /\ MouseUp /\ Step(5, 6)
    \/ MoveTimerExpired /\ Step(script, script)
    \/ ScenarioTick

SpecScenario == Init /\ [][ScenarioNext]_vars

ScenarioDone == script = 6 /\ moveThrottle.timer = NoTimer

\* ------------------------------------------------------------------ claims
Visited(node) == \E i \in DOMAIN input : input[i] = node

\* No visited node is a widget that carries the resizer class.
NoResizerWidgetVisited ==
    \A i \in DOMAIN input : ~(IsWidget(input[i]) /\ HasResizerClass(input[i]))

\* C1: at most one Resizer is active at any instant, a Resizer being active
\* from begin() until commit(), also after two presses with no release in
\* between.
C1_AtMostOneActive == Cardinality(began) <= 1

\* C2, as stated: for the moves delivered within one throttle window while a
\* Resizer is active, updateSize is invoked at most once, and with the data of
\* the last move of the window.
C2_OncePerWindowWithLastData ==
    (win.closed /\ win.act) =>
        /\ ~win.mid
        /\ ~(win.lead # Null /\ win.trail # Null)
        /\ win.lead # Null => win.lead = win.lastd
        /\ win.trail # Null => win.trail = win.lastd

\* C2, amended: of the moves delivered within one throttle window while a
\* Resizer is active, the move that opens the window on the leading edge is
\* passed to updateSize at once, with its own data; every later move is held
\* back; and when the window ends updateSize is invoked once more, with the
\* data of the last move of the window, if a move was held back and a Resizer
\* is active then.  So updateSize runs at most twice for the window, not once.
C2_LeadingThenTrailingWithLastData ==
    (win.closed /\ win.act) =>
        /\ ~win.mid
        /\ win.lead = IF win.leading THEN win.first ELSE Null
        /\ win.trail = IF (win.more \/ ~win.leading) /\ win.activeAtClose
                       THEN win.lastd ELSE Null

\* A window in which updateSize ran twice: at once with the first move's
\* data and at the end with the last move's.
C2_Witness ==
    /\ win.closed /\ win.act
    /\ win.first = 1 /\ win.lastd = 2
    /\ win.lead = 1 /\ win.trail = 2
    /\ last.ev = "moveTimer" /\ Len(last.calls) = 1

\* C3: in the scenario, begin runs once on A, updateSize once on A with the
\* second move's data, commit once on A, and nothing runs on B.
C3_ScenarioCalls ==
    ScenarioDone =>
        history = <<Call("begin", 1, 1), Call("updateSize", 1, 2),
                    Call("commit", 1, Null)>>

C5_PressBeginsOwner ==
    (last.ev = "mousedown" /\ observing /\ input[1] >= 1) =>
        /\ last.calls = <<Call("begin", input[1], input[1])>>
        /\ activeResizer = input[1]

\* C5, amended: the same for every handle of a Resizer that is still a value
\* of the registry (no later attachTo for the same viewElement replaced it),
\* as long as destroy() has not removed the listener.
C5_PressBeginsRegisteredOwner ==
    (last.ev = "mousedown" /\ observing /\ input[1] \in RegValues(resizers)) =>
        /\ last.calls = <<Call("begin", input[1], input[1])>>
        /\ activeResizer = input[1]

\* A press on a handle of the Resizer held by the second registry entry.
C5_Witness ==
    /\ last.ev = "mousedown" /\ input = <<2>>
    /\ Len(resizers) = 2 /\ resizers[2].resizer = 2
    /\ activeResizer = 2
    /\ last.calls = <<Call("begin", 2, 2)>>

\* C6: after a selection change that visits widget 1 and widget 2 nested in
\* it, both registered, the focused resizer is that of widget 1 (so never
\* that of widget 2), in whatever order the nodes are visited and whatever
\* else is visited.
C6_OuterWidgetFocused ==
    (/\ last.ev = "selection"
     /\ Visited(1) /\ Visited(2)
     /\ RegGet(resizers, 1) # Null /\ RegGet(resizers, 2) # Null) =>
        focusedResizer = RegGet(resizers, 1)

\* C7: a selection change that visits no resizer-bearing widget leaves the
\* focused resizer null, and while it is null no UI update, viewport resize
\* or run of the throttle's timer changes it or invokes redraw().
C7_NoRedrawWithoutFocus ==
    /\ []((last.ev = "selection" /\ NoResizerWidgetVisited) =>
              (focusedResizer = Null /\ last.calls = <<>>))
    /\ [][(last'.ev # "selection" /\ focusedResizer = Null) =>
              (focusedResizer' = Null /\ last'.calls = <<>>)]_vars

\* A throttled call was pending when a selection change took the focus away;
\* the timer has now run the function, which redrew nothing.
C7_Witness ==
    /\ last.ev = "redrawTimer"
    /\ lastRedraw.trailing = "fired"
    /\ focusedResizer = Null
    /\ last.calls = <<>>

\* C8: while the focused resizer stays the same, two throttled redraw() calls
\* on it are never less than RedrawWait apart.
C8_OneRedrawPerWindow == lastRedraw.gap >= RedrawWait

\* C9: once destroy() has run, no notification and no pending timer invokes
\* anything on a Resizer or changes the active or the focused resizer.
C9_NothingAfterDestroy ==
    [][~observing =>
          /\ last'.calls = <<>>
          /\ activeResizer' = activeResizer
          /\ focusedResizer' = focusedResizer]_vars

\* C10: a press on a target that is no handle, or on a handle that belongs to
\* no Resizer of the registry, invokes no begin() and leaves the slot as it
\* was.
C10_UnresolvedPressIgnored ==
    [][(/\ last'.ev = "mousedown"
        /\ input'[1] \notin RegValues(resizers)) =>
          /\ last'.calls = <<>>
          /\ activeResizer' = activeResizer]_vars

\* C11: while the slot holds a Resizer (no release since the press that set
\* it), a further press on a handle of a registered Resizer is ignored: it
\* calls begin() on nothing and leaves the slot holding the same Resizer.
C11_PressIgnoredWhileActive ==
    [][(/\ last'.ev = "mousedown"
        /\ observing
        /\ activeResizer # Null
        /\ input'[1] \in RegValues(resizers))
       => /\ last'.calls = <<>>
          /\ activeResizer' = activeResizer]_vars

\* C12: a move or a release delivered while the slot is empty is a no-op.
\* The step that handles it calls no Resizer method and leaves the registry
\* and both slots as they were, and a move delivered while the slot was empty
\* is not passed to updateSize() later, by the trailing call of the throttle,
\* either.
C12_NoOpWhenSlotEmpty ==
    /\ [][(last'.ev \in {"mousemove", "mouseup"} /\ activeResizer = Null)
          => /\ last'.calls = <<>>
             /\ resizers' = resizers
             /\ activeResizer' = activeResizer
             /\ focusedResizer' = focusedResizer]_vars
    /\ [](~(/\ last.ev = "moveTimer"
            /\ drag.fwd # "none"
            /\ drag.fwdSlot = Null
            /\ last.calls # <<>>))

\* C13: after a release has invoked commit(), and until the next press, the
\* slot is empty and no updateSize() is invoked on any Resizer, neither by a
\* move delivered after the release nor by a trailing call of the throttle
\* that was pending from moves delivered before it.
C13_NoUpdateAfterCommit ==
    drag.released =>
        /\ activeResizer = Null
        /\ \A i \in DOMAIN last.calls : last.calls[i].op # "updateSize"

\* The trailing call of the throttle ran the listener, after a release that
\* committed, with a move delivered before that release.
C13_Witness ==
    /\ drag.released
    /\ last.ev = "moveTimer"
    /\ drag.fwd = "stale"
    /\ drag.fwdSlot # Null
    /\ last.calls = <<>>
    /\ activeResizer = Null

\* The keys of the registry.
RegKeys(reg) == {reg[i].key : i \in 1 .. Len(reg)}

\* C14: only attachTo changes the registry.  attachTo creates a Resizer that
\* was in no entry before and maps its key to it, adding the key or
\* overwriting its entry; every other entry stays and no key goes away.  No
\* other step (press, move, release, selection change, UI update, window
\* resize, timer, destroy) changes the registry.
C14_OnlyAttachToChangesRegistry ==
    [][IF last'.ev = "attachTo"
       THEN /\ created' \notin RegValues(resizers)
            /\ \E key \in Keys :
                  /\ RegGet(resizers', key) = created'
                  /\ RegKeys(resizers') = RegKeys(resizers) \cup {key}
                  /\ \A other \in Keys \ {key} :
                        RegGet(resizers', other) = RegGet(resizers, other)
       ELSE resizers' = resizers]_vars

\* A second attachTo with the same key has overwritten the entry of the first.
C14_Witness ==
    /\ last.ev = "attachTo"
    /\ created = 2
    /\ Len(resizers) = 1
    /\ resizers[1].resizer = 2

\* C15: the final pointer position of a drag is not lost.  When a release
\* commits the Resizer in the slot, no move delivered to that Resizer is
\* still waiting for updateSize(): each has reached updateSize() itself or
\* was followed by a later move of the interaction that has.
C15_FinalPositionNotLost == ~drag.lost

\* C16: throttling does not reorder across event sources.  The trailing call
\* of the throttle never passes to updateSize() a move that was delivered
\* before a press on a handle or a release that has been handled since.
C16_NoReorderAcrossSources ==
    ~(/\ last.ev = "moveTimer"
      /\ drag.fwd = "stale"
      /\ last.calls # <<>>)

\* Every call a step of the redraw scheduler makes is redraw() on the
\* Resizer that is focused when the step runs.
RedrawsTargetFocus ==
    (last'.ev \in {"update", "resize", "redrawTimer"}) =>
        \A i \in DOMAIN last'.calls :
            /\ focusedResizer # Null
            /\ last'.calls[i] = Call("redraw", focusedResizer, Null)

\* C17: the UI-update trigger and the window-resize trigger are throttled
\* independently.  With a Resizer focused, a window resize handled less than
\* 200 ms after a UI update, with no window resize in the 200 ms before it,
\* calls redraw() on the focused Resizer at once; and every redraw() of
\* either trigger is made on the Resizer focused when the call fires.
C17_IndependentTriggers ==
    [][/\ (/\ last'.ev = "resize"
           /\ observing
           /\ focusedResizer # Null
           /\ lastRedraw.sinceUpdate < RedrawWait
           /\ lastRedraw.sinceResize >= RedrawWait)
          => last'.calls = <<Call("redraw", focusedResizer, Null)>>
       /\ RedrawsTargetFocus]_vars

\* C17, amended: the two triggers share one throttle.  A UI update or a
\* window resize handled less than 200 ms after a notification of either
\* kind that called redraw() at once calls nothing itself (it is coalesced
\* into the window of that notification); and every redraw() of either
\* trigger is made on the Resizer focused when the call fires.
C17_SharedThrottle ==
    [][/\ (/\ last'.ev \in {"update", "resize"}
           /\ lastRedraw.by \in {"update", "resize"}
           /\ lastRedraw.age < RedrawWait)
          => last'.calls = <<>>
       /\ RedrawsTargetFocus]_vars

\* A window resize, the first for 200 ms, was handled less than 200 ms after
\* a UI update that had redrawn the focused Resizer, and called nothing.
C17_Witness ==
    /\ last.ev = "resize"
    /\ observing
    /\ last.calls = <<>>
    /\ focusedResizer # Null
    /\ lastRedraw.on = focusedResizer
    /\ lastRedraw.by = "update"
    /\ lastRedraw.age < RedrawWait
    /\ lastRedraw.sinceUpdate < RedrawWait
    /\ redrawThrottle.lastArgs # Null

\* The visited nodes that qualify: a widget with the resizer class that is
\* not inside the qualifying node visited most recently before it.
RECURSIVE Qualifies(_, _)
Qualifies(visited, i) ==
    /\ IsWidget(visited[i])
    /\ HasResizerClass(visited[i])
    /\ LET before == {j \in 1 .. i - 1 : Qualifies(visited, j)}
       IN  \/ before = {}
           \/ LET recent == CHOOSE j \in before : \A k \in before : k <= j
              IN  visited[recent] \notin Ancestors(visited[i])

\* The registry entry of the last qualifying node that has one, else Null.
LastRegisteredQualifying(reg, visited) ==
    LET found == {i \in DOMAIN visited :
                     Qualifies(visited, i) /\ RegGet(reg, visited[i]) # Null}
    IN  IF found = {} THEN Null
        ELSE RegGet(reg, visited[CHOOSE i \in found : \A k \in found : k <= i])

C19_SlotsHoldRegisteredResizers ==
    /\ activeResizer = Null \/ activeResizer \in RegValues(resizers)
    /\ focusedResizer = Null \/ focusedResizer \in RegValues(resizers)
    /\ \A i \in DOMAIN last.calls :
          last.calls[i].op \in {"updateSize", "commit", "redraw"}
              => last.calls[i].on \in RegValues(resizers)

\* C20: the drag state and the focus state are independent.  A press, a
\* move, a release and the trailing call of the move throttle leave the
\* focused-resizer slot alone and never call redraw(); a selection change, a
\* UI update, a window resize and the trailing call of the redraw throttle
\* leave the active-resizer slot alone and never call begin(), updateSize()
\* or commit().
C20_DragAndFocusIndependent ==
    [][/\ (last'.ev \in {"mousedown", "mousemove", "mouseup", "moveTimer"})
          => /\ focusedResizer' = focusedResizer
             /\ \A i \in DOMAIN last'.calls : last'.calls[i].op # "redraw"
       /\ (last'.ev \in {"selection", "update", "resize", "redrawTimer"})
          => /\ activeResizer' = activeResizer
             /\ \A i \in DOMAIN last'.calls :
                   last'.calls[i].op \notin {"begin", "updateSize", "commit"}]_vars

\* A selection change, handled during a drag, focused and redrew another
\* Resizer than the one being dragged, which stayed in its slot.
C20_Witness ==
    /\ last.ev = "selection"
    /\ activeResizer # Null
    /\ focusedResizer # Null
    /\ focusedResizer # activeResizer
    /\ last.calls = <<Call("redraw", focusedResizer, Null)>>
    /\ moveThrottle.lastArgs # Null

====
